---------------------------- MODULE Spec2Model ----------------------------
(***************************************************************************)
(* rs_pbrt: the stratified sampler (src/samplers/stratified.rs) as a state *)
(* machine, and the point light (src/lights/point.rs).  A sampler is a record of the struct's fields; its Vec fields  *)
(* are addresses of buffers in a heap, so that what clone_with_seed copies *)
(* and what it would share is part of the model.  Every method is a pure   *)
(* operator from the sampler's value to its new value and its outcome, and *)
(* an action applies it to one sampler.                                    *)
(*                                                                         *)
(* Floats are exact rationals <<numerator, denominator>>.  Indices and     *)
(* cursors are 0-based as in the code; sequences are indexed with +1.      *)
(***************************************************************************)
EXTENDS Integers, Sequences, FiniteSets, TLC

(* ------------------------------ bounds -------------------------------- *)
\* xsamples and ysamples given to StratifiedSampler::new are drawn from 1..Max.
MaxXSamples == 2
MaxYSamples == 1
\* n_sampled_dimensions given to new is drawn from 0..MaxDims.
MaxDims == 1
\* request_2d_array is called at most MaxArrays times, with n in 1..MaxArraySize.
MaxArrays == 2
MaxArraySize == 2
\* Seeds given to reseed and clone_with_seed are drawn from 0..MaxSeed.
MaxSeed == 1
\* Pixels given to start_pixel are (1,0) .. (MaxPixel,0).
MaxPixel == 1
\* start_next_sample is called until the sample index is MaxOver past
\* samples_per_pixel.
MaxOver == 1
\* In SpecClone: the samplers in existence (the first and its clones), and
\* the calls made in all.
MaxSamplers == 2
MaxCloneSteps == 4
\* In SpecTwin: the calls made before the two samplers are reseeded, and the
\* calls made on each of them afterwards.
MaxTwinWarm == 2
MaxTwinSteps == 2
\* In SpecLight: coordinates of points are drawn from 0..MaxCoord, the
\* light's intensity is a grey of 0..MaxIntensity or one fixed colour.
MaxCoord == 1
MaxIntensity == 1

(* ------------------------- Rng (core/rng.rs) -------------------------- *)
\* PCG32's linear congruential generator with its state, multiplier and
\* stream taken modulo RngModulus.
RngModulus == 4
PCG32_DEFAULT_STATE == 3
PCG32_DEFAULT_STREAM == 3
PCG32_MULT == 5

RngDefault == [state |-> PCG32_DEFAULT_STATE % RngModulus,
               inc |-> PCG32_DEFAULT_STREAM % RngModulus]

\* One draw: the output is the old state, the state advances.
uniform_uint32(r) ==
    [val |-> r.state,
     rng |-> [r EXCEPT !.state = (r.state * PCG32_MULT + r.inc) % RngModulus]]

\* A float in [0,1): the draw over the modulus.
uniform_float(r) ==
    LET d == uniform_uint32(r) IN [val |-> <<d.val, RngModulus>>, rng |-> d.rng]

uniform_uint32_bounded(r, b) ==
    LET d == uniform_uint32(r) IN [val |-> d.val % b, rng |-> d.rng]

set_sequence(r, seed) ==
    LET r0 == [state |-> 0, inc |-> (2 * seed + 1) % RngModulus]
        r1 == uniform_uint32(r0).rng
        r2 == [r1 EXCEPT !.state = (r1.state + PCG32_DEFAULT_STATE) % RngModulus]
    IN  uniform_uint32(r2).rng

(* ------------------- sampling primitives (core/sampling.rs) ------------ *)
FloatZero == <<0, 1>>
Point2fDefault == [x |-> FloatZero, y |-> FloatZero]
Point2iDefault == <<0, 0>>

\* (i + delta) / n with delta = u / RngModulus; the centre of the stratum is
\* delta = 1/2.  The value is below 1, so min(.., OneMinusEpsilon) keeps it.
Stratum(i, u, n) == <<i * RngModulus + u, n * RngModulus>>
HalfJitter == RngModulus \div 2

\* v with its entries start .. start+Len(w)-1 (0-based) replaced by w.
WriteAt(v, start, w) ==
    [k \in 1..Len(v) |->
        IF k > start /\ k <= start + Len(w) THEN w[k - start] ELSE v[k]]

Swap(v, a, b) == [v EXCEPT ![a + 1] = v[b + 1], ![b + 1] = v[a + 1]]

\* stratified_sample_1d: samp[i] = (i + delta) / n for i in 0..n-1, one draw
\* each when jitter is on.  Returns the n values and the rng.
RECURSIVE Strat1DFrom(_, _, _, _, _)
Strat1DFrom(i, n, r, jitter, acc) ==
    IF i >= n THEN [v |-> acc, rng |-> r]
    ELSE IF jitter
         THEN LET d == uniform_float(r)
              IN  Strat1DFrom(i + 1, n, d.rng, jitter,
                              Append(acc, Stratum(i, d.val[1], n)))
         ELSE Strat1DFrom(i + 1, n, r, jitter,
                          Append(acc, Stratum(i, HalfJitter, n)))

stratified_sample_1d(n, r, jitter) == Strat1DFrom(0, n, r, jitter, <<>>)

\* stratified_sample_2d: the nx * ny grid, row by row, jx drawn before jy.
RECURSIVE Strat2DFrom(_, _, _, _, _, _)
Strat2DFrom(i, nx, ny, r, jitter, acc) ==
    IF i >= nx * ny THEN [v |-> acc, rng |-> r]
    ELSE LET x  == i % nx
             y  == i \div nx
             dx == IF jitter THEN uniform_float(r)
                   ELSE [val |-> <<HalfJitter, RngModulus>>, rng |-> r]
             dy == IF jitter THEN uniform_float(dx.rng)
                   ELSE [val |-> <<HalfJitter, RngModulus>>, rng |-> r]
         IN  Strat2DFrom(i + 1, nx, ny, dy.rng, jitter,
                         Append(acc, [x |-> Stratum(x, dx.val[1], nx),
                                      y |-> Stratum(y, dy.val[1], ny)]))

stratified_sample_2d(nx, ny, r, jitter) == Strat2DFrom(0, nx, ny, r, jitter, <<>>)

\* shuffle with one dimension per sample: entry i is swapped with entry
\* i + uniform_uint32_bounded(count - i), for i in 0..count-1.
RECURSIVE ShuffleFrom(_, _, _, _)
ShuffleFrom(i, count, r, v) ==
    IF i >= count THEN [v |-> v, rng |-> r]
    ELSE LET d == uniform_uint32_bounded(r, count - i)
         IN  ShuffleFrom(i + 1, count, d.rng, Swap(v, i, i + d.val))

shuffle(v, count, r) == ShuffleFrom(0, count, r, v)

\* latin_hypercube in two dimensions: n points along the diagonal (x drawn
\* before y), then x permuted over the points, then y.
RECURSIVE LhsDiagonal(_, _, _, _)
LhsDiagonal(i, n, r, acc) ==
    IF i >= n THEN [v |-> acc, rng |-> r]
    ELSE LET dx == uniform_float(r)
             dy == uniform_float(dx.rng)
         IN  LhsDiagonal(i + 1, n, dy.rng,
                         Append(acc, [x |-> Stratum(i, dx.val[1], n),
                                      y |-> Stratum(i, dy.val[1], n)]))

RECURSIVE LhsPermute(_, _, _, _, _)
LhsPermute(dim, j, n, r, v) ==
    IF j >= n THEN [v |-> v, rng |-> r]
    ELSE LET d     == uniform_uint32_bounded(r, n - j)
             other == j + d.val
             w     == IF dim = 0
                      THEN [v EXCEPT ![j + 1].x = v[other + 1].x,
                                     ![other + 1].x = v[j + 1].x]
                      ELSE [v EXCEPT ![j + 1].y = v[other + 1].y,
                                     ![other + 1].y = v[j + 1].y]
         IN  LhsPermute(dim, j + 1, n, d.rng, w)

latin_hypercube(n, r) ==
    LET g  == LhsDiagonal(0, n, r, <<>>)
        px == LhsPermute(0, 0, n, g.rng, g.v)
    IN  LhsPermute(1, 0, n, px.rng, px.v)

(* ------------- StratifiedSampler (samplers/stratified.rs) -------------- *)
\* The outcome of a call: what it returned, or that it panicked.
Outcome(op, arg, kind, val) == [op |-> op, arg |-> arg, kind |-> kind, val |-> val]
NoVal == <<>>

Repeat(n, x) == [k \in 1..n |-> x]

new(x_pixel_samples, y_pixel_samples, jitter_samples, n_sampled_dimensions) ==
    LET spp == x_pixel_samples * y_pixel_samples
    IN  [samples_per_pixel |-> spp,
         x_pixel_samples |-> x_pixel_samples,
         y_pixel_samples |-> y_pixel_samples,
         jitter_samples |-> jitter_samples,
         samples_1d |-> Repeat(n_sampled_dimensions, Repeat(spp, FloatZero)),
         samples_2d |-> Repeat(n_sampled_dimensions, Repeat(spp, Point2fDefault)),
         current_1d_dimension |-> 0,
         current_2d_dimension |-> 0,
         rng |-> RngDefault,
         current_pixel |-> Point2iDefault,
         current_pixel_sample_index |-> 0,
         samples_1d_array_sizes |-> <<>>,
         samples_2d_array_sizes |-> <<>>,
         sample_array_1d |-> <<>>,
         sample_array_2d |-> <<>>,
         array_1d_offset |-> 0,
         array_2d_offset |-> 0]

\* start_pixel's four loops, each from index i (and sample j) on.
RECURSIVE StartPixel1D(_, _)
StartPixel1D(s, i) ==
    IF i >= Len(s.samples_1d) THEN s
    ELSE LET n  == s.x_pixel_samples * s.y_pixel_samples
             g  == stratified_sample_1d(n, s.rng, s.jitter_samples)
             sh == shuffle(WriteAt(s.samples_1d[i + 1], 0, g.v), n, g.rng)
         IN  StartPixel1D([s EXCEPT !.samples_1d[i + 1] = sh.v, !.rng = sh.rng],
                          i + 1)

RECURSIVE StartPixel2D(_, _)
StartPixel2D(s, i) ==
    IF i >= Len(s.samples_2d) THEN s
    ELSE LET g  == stratified_sample_2d(s.x_pixel_samples, s.y_pixel_samples,
                                        s.rng, s.jitter_samples)
             sh == shuffle(WriteAt(s.samples_2d[i + 1], 0, g.v),
                           s.x_pixel_samples * s.y_pixel_samples, g.rng)
         IN  StartPixel2D([s EXCEPT !.samples_2d[i + 1] = sh.v, !.rng = sh.rng],
                          i + 1)

RECURSIVE StartPixelArray1D(_, _, _)
StartPixelArray1D(s, i, j) ==
    IF i >= Len(s.samples_1d_array_sizes) THEN s
    ELSE IF j >= s.samples_per_pixel THEN StartPixelArray1D(s, i + 1, 0)
    ELSE LET count == s.samples_1d_array_sizes[i + 1]
             g     == stratified_sample_1d(count, s.rng, s.jitter_samples)
             t     == WriteAt(s.sample_array_1d[i + 1], j * count, g.v)
             sh    == shuffle(SubSeq(t, j * count + 1, Len(t)), count, g.rng)
         IN  StartPixelArray1D(
                 [s EXCEPT !.sample_array_1d[i + 1] = WriteAt(t, j * count, sh.v),
                           !.rng = sh.rng], i, j + 1)

RECURSIVE StartPixelArray2D(_, _, _)
StartPixelArray2D(s, i, j) ==
    IF i >= Len(s.samples_2d_array_sizes) THEN s
    ELSE IF j >= s.samples_per_pixel THEN StartPixelArray2D(s, i + 1, 0)
    ELSE LET count == s.samples_2d_array_sizes[i + 1]
             g     == latin_hypercube(count, s.rng)
         IN  StartPixelArray2D(
                 [s EXCEPT !.sample_array_2d[i + 1] = WriteAt(@, j * count, g.v),
                           !.rng = g.rng], i, j + 1)

start_pixel(s, p) ==
    LET a == StartPixel1D(s, 0)
        b == StartPixel2D(a, 0)
        c == StartPixelArray1D(b, 0, 0)
        d == StartPixelArray2D(c, 0, 0)
    IN  [s   |-> [d EXCEPT !.current_pixel = p,
                           !.current_pixel_sample_index = 0,
                           !.array_1d_offset = 0,
                           !.array_2d_offset = 0],
         out |-> Outcome("start_pixel", p, "unit", NoVal)]

get_1d(s) ==
    IF ~(s.current_pixel_sample_index < s.samples_per_pixel)
    THEN [s |-> s, out |-> Outcome("get_1d", NoVal, "fault", NoVal)]
    ELSE IF s.current_1d_dimension < Len(s.samples_1d)
    THEN [s   |-> [s EXCEPT !.current_1d_dimension = @ + 1],
          out |-> Outcome("get_1d", NoVal, "value",
                          s.samples_1d[s.current_1d_dimension + 1]
                                      [s.current_pixel_sample_index + 1])]
    ELSE LET d == uniform_float(s.rng)
         IN  [s   |-> [s EXCEPT !.rng = d.rng],
              out |-> Outcome("get_1d", NoVal, "value", d.val)]

\* get_2d's fallback: y is drawn before x.  XFirst is the order of the C++
\* expression as written, Point2f(rng.UniformFloat(), rng.UniformFloat()).
Get2DFallbackXFirst(s) ==
    LET x == uniform_float(s.rng)
        y == uniform_float(x.rng)
    IN  [s |-> [s EXCEPT !.rng = y.rng], val |-> [x |-> x.val, y |-> y.val]]

Get2DFallback(s) ==
    LET y == uniform_float(s.rng)
        x == uniform_float(y.rng)
    IN  [s |-> [s EXCEPT !.rng = x.rng], val |-> [x |-> x.val, y |-> y.val]]

\* Rewinding also takes the 1D cursor back to the first table.
Get2DRewinding(s) ==
    LET f == Get2DFallback(s)
    IN  [s   |-> [f.s EXCEPT !.current_1d_dimension = 0],
         out |-> Outcome("get_2d", NoVal, "value", f.val)]

get_2d(s) ==
    IF ~(s.current_pixel_sample_index < s.samples_per_pixel)
    THEN [s |-> s, out |-> Outcome("get_2d", NoVal, "fault", NoVal)]
    ELSE IF s.current_2d_dimension < Len(s.samples_2d)
    THEN [s   |-> [s EXCEPT !.current_2d_dimension = @ + 1],
          out |-> Outcome("get_2d", NoVal, "value",
                          s.samples_2d[s.current_2d_dimension + 1]
                                      [s.current_pixel_sample_index + 1])]
    ELSE LET f == Get2DFallback(s)
         IN  [s |-> f.s, out |-> Outcome("get_2d", NoVal, "value", f.val)]

round_count(s, count) == count

request_2d_array(s, n) ==
    IF round_count(s, n) # n
    THEN [s |-> s, out |-> Outcome("request_2d_array", n, "fault", NoVal)]
    ELSE LET size == n * s.samples_per_pixel
         IN  [s   |-> [s EXCEPT !.samples_2d_array_sizes = Append(@, n),
                                !.sample_array_2d =
                                    Append(@, Repeat(size, Point2fDefault))],
              out |-> Outcome("request_2d_array", n, "unit", NoVal)]

\* Where the current sample's n points start in an array slot.  Unscaled
\* takes the sample index for the position.
SliceStartUnscaled(s, n) == s.current_pixel_sample_index

SliceStart(s, n) == s.current_pixel_sample_index * n

\* get_2d_arrays' result.  Swapped returns the later slot first.
PairSwapped(ret1, ret2) == <<ret2, ret1>>

Pair(ret1, ret2) == <<ret1, ret2>>

\* The slice [start..end) of v; a range past the end of v panics.
SliceOk(v, start, end) == start <= end /\ end <= Len(v)
Slice(v, start, end) == SubSeq(v, start + 1, end)

get_2d_array(s, n) ==
    IF s.array_2d_offset = Len(s.sample_array_2d)
    THEN [s |-> s, out |-> Outcome("get_2d_array", n, "none", NoVal)]
    ELSE IF \/ s.array_2d_offset >= Len(s.samples_2d_array_sizes)
            \/ s.samples_2d_array_sizes[s.array_2d_offset + 1] # n
            \/ ~(s.current_pixel_sample_index < s.samples_per_pixel)
    THEN [s |-> s, out |-> Outcome("get_2d_array", n, "fault", NoVal)]
    ELSE LET start == SliceStart(s, n)
             end   == start + n
             t     == [s EXCEPT !.array_2d_offset = @ + 1]
             slot  == t.sample_array_2d[t.array_2d_offset - 1 + 1]
         IN  IF ~SliceOk(slot, start, end)
             THEN [s |-> t, out |-> Outcome("get_2d_array", n, "fault", NoVal)]
             ELSE [s |-> t,
                   out |-> Outcome("get_2d_array", n, "some", Slice(slot, start, end))]

get_2d_arrays(s, n) ==
    IF s.array_2d_offset = Len(s.sample_array_2d)
    THEN [s |-> s, out |-> Outcome("get_2d_arrays", n, "none", NoVal)]
    ELSE IF \/ s.array_2d_offset >= Len(s.samples_2d_array_sizes)
            \/ s.samples_2d_array_sizes[s.array_2d_offset + 1] # n
            \/ ~(s.current_pixel_sample_index < s.samples_per_pixel)
    THEN [s |-> s, out |-> Outcome("get_2d_arrays", n, "fault", NoVal)]
    ELSE LET start == SliceStart(s, n)
             end   == start + n
             t     == [s EXCEPT !.array_2d_offset = @ + 1]
             slot1 == t.sample_array_2d[t.array_2d_offset - 1 + 1]
         IN  IF ~SliceOk(slot1, start, end)
             THEN [s |-> t, out |-> Outcome("get_2d_arrays", n, "fault", NoVal)]
             \* repeat code from above
             ELSE IF t.array_2d_offset = Len(t.sample_array_2d)
             THEN [s |-> t, out |-> Outcome("get_2d_arrays", n, "none", NoVal)]
             ELSE IF \/ t.array_2d_offset >= Len(t.samples_2d_array_sizes)
                     \/ t.samples_2d_array_sizes[t.array_2d_offset + 1] # n
                     \/ ~(t.current_pixel_sample_index < t.samples_per_pixel)
             THEN [s |-> t, out |-> Outcome("get_2d_arrays", n, "fault", NoVal)]
             ELSE LET u     == [t EXCEPT !.array_2d_offset = @ + 1]
                      slot2 == u.sample_array_2d[u.array_2d_offset - 1 + 1]
                  IN  IF ~SliceOk(slot2, start, end)
                      THEN [s |-> u,
                            out |-> Outcome("get_2d_arrays", n, "fault", NoVal)]
                      ELSE [s |-> u,
                            out |-> Outcome("get_2d_arrays", n, "pair",
                                            Pair(Slice(slot1, start, end),
                                                 Slice(slot2, start, end)))]

get_2d_array_vec(s, n) ==
    IF s.array_2d_offset = Len(s.sample_array_2d)
    THEN [s |-> s, out |-> Outcome("get_2d_array_vec", n, "vec", <<>>)]
    ELSE IF \/ s.array_2d_offset >= Len(s.samples_2d_array_sizes)
            \/ s.samples_2d_array_sizes[s.array_2d_offset + 1] # n
            \/ ~(s.current_pixel_sample_index < s.samples_per_pixel)
    THEN [s |-> s, out |-> Outcome("get_2d_array_vec", n, "fault", NoVal)]
    ELSE LET start == SliceStart(s, n)
             end   == start + n
             slot  == s.sample_array_2d[s.array_2d_offset + 1]
         IN  IF ~SliceOk(slot, start, end)
             THEN [s |-> s, out |-> Outcome("get_2d_array_vec", n, "fault", NoVal)]
             ELSE [s   |-> [s EXCEPT !.array_2d_offset = @ + 1],
                   out |-> Outcome("get_2d_array_vec", n, "vec",
                                   Slice(slot, start, end))]

\* start_next_sample's result.  Inclusive lets one sample more pass.
MoreSamplesInclusive(s) == s.current_pixel_sample_index <= s.samples_per_pixel

MoreSamples(s) == s.current_pixel_sample_index < s.samples_per_pixel

start_next_sample(s) ==
    LET t == [s EXCEPT !.current_1d_dimension = 0,
                       !.current_2d_dimension = 0,
                       !.array_1d_offset = 0,
                       !.array_2d_offset = 0,
                       !.current_pixel_sample_index = @ + 1]
    IN  [s   |-> t,
         out |-> Outcome("start_next_sample", NoVal, "bool", MoreSamples(t))]

\* reseed hands the rng's sequence to set_sequence.  KeepingState selects the
\* stream of the seed and leaves the generator's state where it was;
\* Regenerating fills the 1D tables from the new sequence.
ReseedRegenerating(s, seed) ==
    [s   |-> StartPixel1D([s EXCEPT !.rng = set_sequence(s.rng, seed)], 0),
     out |-> Outcome("reseed", seed, "unit", NoVal)]

ReseedKeepingState(s, seed) ==
    [s   |-> [s EXCEPT !.rng.inc = (2 * seed + 1) % RngModulus],
     out |-> Outcome("reseed", seed, "unit", NoVal)]

reseed(s, seed) ==
    [s   |-> [s EXCEPT !.rng = set_sequence(s.rng, seed)],
     out |-> Outcome("reseed", seed, "unit", NoVal)]

(* --------------------- PointLight (lights/point.rs) -------------------- *)
\* A Point3f, Vector3f or Normal3f is a triple of integers, a Spectrum a
\* triple of Floats (r, g, b), an Option is None or Some value.
None == [some |-> FALSE]
Some(x) == [some |-> TRUE, val |-> x]
Vector3fDefault == <<0, 0, 0>>
Normal3fDefault == <<0, 0, 0>>
Point3fDefault == <<0, 0, 0>>
FloatOne == <<1, 1>>

\* Spectrum::new(v): v in every component.
SpectrumNew(v) == <<v, v, v>>

\* Point3f - Point3f, length_squared, and the distance squared of two points.
Pnt3Sub(p, q) == <<p[1] - q[1], p[2] - q[2], p[3] - q[3]>>
length_squared(v) == v[1] * v[1] + v[2] * v[2] + v[3] * v[3]

pnt3_distance_squared(p1, p2) == length_squared(Pnt3Sub(p1, p2))

\* Vector3f::normalize: v / v.length().  The length is a square root, so the
\* quotient is kept as its parts: the vector v / sqrt(len_sq).
normalize(v) == [v |-> v, len_sq |-> length_squared(v)]

\* Spectrum / Float and Spectrum * Float, by component; a zero divisor is left
\* in the quotient.
SpectrumDiv(sp, f) == [c \in 1..3 |-> <<sp[c][1] * f[2], sp[c][2] * f[1]>>]
SpectrumMul(sp, f) == [c \in 1..3 |-> <<sp[c][1] * f[1], sp[c][2] * f[2]>>]

\* Transform::transform_point of a translation.
transform_point(light_to_world, p) ==
    <<p[1] + light_to_world[1], p[2] + light_to_world[2], p[3] + light_to_world[3]>>

PointLight_new(light_to_world, medium_interface, i) ==
    [p_light |-> transform_point(light_to_world, Point3fDefault),
     i |-> i,
     flags |-> "DeltaPosition",
     n_samples |-> 1,
     medium_interface |-> [inside |-> medium_interface.inside,
                           outside |-> medium_interface.outside]]

\* sample_li's first endpoint: the interaction's fields, one by one.
ShadingEndpoint(iref) ==
    [p |-> iref.p, time |-> iref.time, p_error |-> iref.p_error,
     wo |-> iref.wo, n |-> iref.n, medium_interface |-> None]

\* The radiance sample_li returns.  Multiplied grows with the distance.
RadianceMultiplied(l, iref) ==
    SpectrumMul(l.i, <<pnt3_distance_squared(l.p_light, iref.p), 1>>)

Radiance(l, iref) ==
    SpectrumDiv(l.i, <<pnt3_distance_squared(l.p_light, iref.p), 1>>)

\* sample_li: the out parameters wi, pdf and vis, and the value returned.
sample_li(l, iref, u) ==
    [op  |-> "sample_li",
     iref |-> iref,
     wi  |-> normalize(Pnt3Sub(l.p_light, iref.p)),
     pdf |-> FloatOne,
     vis |-> [p0 |-> ShadingEndpoint(iref),
              p1 |-> [p |-> l.p_light, time |-> iref.time,
                      p_error |-> Vector3fDefault, wo |-> Vector3fDefault,
                      n |-> Normal3fDefault, medium_interface |-> None]],
     ret |-> Radiance(l, iref)]

le(l, ray) == [op |-> "le", ray |-> ray, ret |-> SpectrumNew(FloatZero)]

\* pdf_li.  OfSampled gives the direction sample_li returns density 1.
PdfLiOfSampled(l, iref, wi) ==
    [op |-> "pdf_li", iref |-> iref, wi |-> wi,
     ret |-> IF wi = sample_li(l, iref, Point2fDefault).wi
             THEN FloatOne ELSE FloatZero]

pdf_li(l, iref, wi) ==
    [op |-> "pdf_li", iref |-> iref, wi |-> wi, ret |-> FloatZero]

(* ------------------------------ state --------------------------------- *)
VARIABLES
    samplers,   \* the samplers in existence; a Vec field holds its buffer's address
    heap,       \* the buffers: heap[a] is the contents of the Vec at address a
    pc,         \* per sampler: "ready", or "panicked" once a call on it panicked
    hist,       \* per sampler, what the calls so far were (history, not program
                \* state): start_pixel called, start_next_sample and get_1d calls
                \* since, no start_next_sample since start_pixel returned false
    drv,        \* the caller: where it is in its loop, which sampler it called
                \* last, what the call it is comparing returned
    light,      \* the point light of the scene, None while there is none
    lres        \* what the last call on the light gave: out parameters and value

vars == <<samplers, heap, pc, hist, drv, light, lres>>

Ids == DOMAIN samplers

\* The sampler with its Vec fields read from the heap h.
DerefIn(h, r) ==
    [r EXCEPT !.samples_1d = h[@],
              !.samples_2d = h[@],
              !.samples_1d_array_sizes = h[@],
              !.samples_2d_array_sizes = h[@],
              !.sample_array_1d = h[@],
              !.sample_array_2d = h[@]]

Sampler(i) == DerefIn(heap, samplers[i])

\* The value v written back through the addresses r holds: the scalars into
\* the record, the Vecs into their buffers.
WithAddrs(v, r) ==
    [v EXCEPT !.samples_1d = r.samples_1d,
              !.samples_2d = r.samples_2d,
              !.samples_1d_array_sizes = r.samples_1d_array_sizes,
              !.samples_2d_array_sizes = r.samples_2d_array_sizes,
              !.sample_array_1d = r.sample_array_1d,
              !.sample_array_2d = r.sample_array_2d]

Written(h, r, v) ==
    [a \in DOMAIN h |->
        IF a = r.samples_1d THEN v.samples_1d
        ELSE IF a = r.samples_2d THEN v.samples_2d
        ELSE IF a = r.samples_1d_array_sizes THEN v.samples_1d_array_sizes
        ELSE IF a = r.samples_2d_array_sizes THEN v.samples_2d_array_sizes
        ELSE IF a = r.sample_array_1d THEN v.sample_array_1d
        ELSE IF a = r.sample_array_2d THEN v.sample_array_2d
        ELSE h[a]]

\* A new sampler's buffers, in the order of the struct's fields.
Buffers(v) == <<v.samples_1d, v.samples_2d, v.samples_1d_array_sizes,
                v.samples_2d_array_sizes, v.sample_array_1d, v.sample_array_2d>>

AddrsFrom(v, base) ==
    [v EXCEPT !.samples_1d = base + 1,
              !.samples_2d = base + 2,
              !.samples_1d_array_sizes = base + 3,
              !.samples_2d_array_sizes = base + 4,
              !.sample_array_1d = base + 5,
              !.sample_array_2d = base + 6]

NoHist == [started |-> FALSE, nNext |-> 0, n1d |-> 0, active |-> FALSE]
NoOut == Outcome("", NoVal, "", NoVal)
NoDrv == [phase |-> "idle", n |-> 0, got |-> 0, probe |-> "", steps |-> 0,
          actor |-> 1, out |-> NoOut, agree |-> FALSE, diff |-> FALSE,
          same |-> TRUE]

Min(a, b) == IF a < b THEN a ELSE b

\* The call res made on sampler i takes effect.
Apply(i, res) ==
    /\ samplers' = [samplers EXCEPT ![i] = WithAddrs(res.s, samplers[i])]
    /\ heap' = Written(heap, samplers[i], res.s)
    /\ pc' = [pc EXCEPT ![i] = IF res.out.kind = "fault" THEN "panicked" ELSE "ready"]
    /\ UNCHANGED <<light, lres>>

Init ==
    \E x \in 1..MaxXSamples, y \in 1..MaxYSamples, jitter \in BOOLEAN,
       nd \in 0..MaxDims :
        LET v == new(x, y, jitter, nd)
        IN  /\ samplers = <<AddrsFrom(v, 0)>>
            /\ heap = Buffers(v)
            /\ pc = <<"ready">>
            /\ hist = <<NoHist>>
            /\ drv = NoDrv
            /\ light = None
            /\ lres = None

(* ------------------------------ actions -------------------------------- *)
StartPixel(i, p) ==
    /\ pc[i] = "ready"
    /\ Apply(i, start_pixel(Sampler(i), p))
    /\ hist' = [hist EXCEPT ![i] = [started |-> TRUE, nNext |-> 0, n1d |-> 0,
                                    active |-> TRUE]]

Get1D(i) ==
    /\ pc[i] = "ready"
    /\ Apply(i, get_1d(Sampler(i)))
    /\ hist' = [hist EXCEPT ![i].n1d =
                    IF pc'[i] = "panicked" THEN @
                    ELSE Min(@ + 1, Len(Sampler(i).samples_1d))]

Get2D(i) ==
    /\ pc[i] = "ready"
    /\ Apply(i, get_2d(Sampler(i)))
    /\ UNCHANGED hist

Request2DArray(i, n) ==
    /\ pc[i] = "ready"
    /\ Len(Sampler(i).samples_2d_array_sizes) < MaxArrays
    /\ Apply(i, request_2d_array(Sampler(i), n))
    /\ UNCHANGED hist

Get2DArray(i, n) ==
    /\ pc[i] = "ready"
    /\ Apply(i, get_2d_array(Sampler(i), n))
    /\ UNCHANGED hist

Get2DArrays(i, n) ==
    /\ pc[i] = "ready"
    /\ Apply(i, get_2d_arrays(Sampler(i), n))
    /\ UNCHANGED hist

Get2DArrayVec(i, n) ==
    /\ pc[i] = "ready"
    /\ Apply(i, get_2d_array_vec(Sampler(i), n))
    /\ UNCHANGED hist

StartNextSample(i) ==
    /\ pc[i] = "ready"
    /\ Sampler(i).current_pixel_sample_index
           < Sampler(i).samples_per_pixel + MaxOver
    /\ Apply(i, start_next_sample(Sampler(i)))
    /\ hist' = [hist EXCEPT ![i].nNext = @ + 1, ![i].n1d = 0,
                             ![i].active = @ /\ start_next_sample(Sampler(i)).out.val]

Reseed(i, seed) ==
    /\ pc[i] = "ready"
    /\ Apply(i, reseed(Sampler(i), seed))
    /\ UNCHANGED hist

Pixels == {<<px, 0>> : px \in 1..MaxPixel}
ArraySizes == 1..MaxArraySize
Seeds == 0..MaxSeed

\* One sampler, called in any order.
Next ==
    \/ \E i \in Ids, p \in Pixels : StartPixel(i, p) /\ UNCHANGED drv
    \/ \E i \in Ids : Get1D(i) /\ UNCHANGED drv
    \/ \E i \in Ids : Get2D(i) /\ UNCHANGED drv
    \/ \E i \in Ids, n \in ArraySizes : Request2DArray(i, n) /\ UNCHANGED drv
    \/ \E i \in Ids, n \in ArraySizes : Get2DArray(i, n) /\ UNCHANGED drv
    \/ \E i \in Ids, n \in ArraySizes : Get2DArrays(i, n) /\ UNCHANGED drv
    \/ \E i \in Ids, n \in ArraySizes : Get2DArrayVec(i, n) /\ UNCHANGED drv
    \/ \E i \in Ids : StartNextSample(i) /\ UNCHANGED drv
    \/ \E i \in Ids, seed \in Seeds : Reseed(i, seed) /\ UNCHANGED drv

Spec == Init /\ [][Next]_vars

(* ------------------------ clone_with_seed ------------------------------ *)
\* Vec::clone and to_vec: a new buffer holding the contents of the one at a.
\* Shared hands out the same buffer again.
VecShared(h, a) == [heap |-> h, addr |-> a]

VecClone(h, a) == [heap |-> Append(h, h[a]), addr |-> Len(h) + 1]

\* The new sampler built from the one whose record is r, and the heap with
\* its buffers.
clone_with_seed(h, r, seed) ==
    LET c1 == VecClone(h, r.samples_1d)
        c2 == VecClone(c1.heap, r.samples_2d)
        c3 == VecClone(c2.heap, r.samples_1d_array_sizes)
        c4 == VecClone(c3.heap, r.samples_2d_array_sizes)
        c5 == VecClone(c4.heap, r.sample_array_1d)
        c6 == VecClone(c5.heap, r.sample_array_2d)
        ss == [samples_per_pixel |-> r.samples_per_pixel,
               x_pixel_samples |-> r.x_pixel_samples,
               y_pixel_samples |-> r.y_pixel_samples,
               jitter_samples |-> r.jitter_samples,
               samples_1d |-> c1.addr,
               samples_2d |-> c2.addr,
               current_1d_dimension |-> r.current_1d_dimension,
               current_2d_dimension |-> r.current_2d_dimension,
               rng |-> r.rng,
               current_pixel |-> r.current_pixel,
               current_pixel_sample_index |-> r.current_pixel_sample_index,
               samples_1d_array_sizes |-> c3.addr,
               samples_2d_array_sizes |-> c4.addr,
               sample_array_1d |-> c5.addr,
               sample_array_2d |-> c6.addr,
               array_1d_offset |-> r.array_1d_offset,
               array_2d_offset |-> r.array_2d_offset]
    IN  [heap |-> c6.heap, s |-> reseed(ss, seed).s]

CloneWithSeed(i, seed) ==
    /\ pc[i] = "ready"
    /\ Len(samplers) < MaxSamplers
    /\ LET c == clone_with_seed(heap, samplers[i], seed)
       IN  /\ samplers' = Append(samplers, c.s)
           /\ heap' = c.heap
    /\ pc' = Append(pc, "ready")
    /\ hist' = Append(hist, hist[i])
    /\ UNCHANGED <<light, lres>>

\* The first sampler and its clones, each called in any order, for
\* MaxCloneSteps calls in all; drv.actor is the sampler called last.
CallOn(i) ==
    /\ drv.steps < MaxCloneSteps
    /\ drv' = [drv EXCEPT !.steps = @ + 1, !.actor = i]

NextClone ==
    \/ \E i \in Ids, p \in Pixels : StartPixel(i, p) /\ CallOn(i)
    \/ \E i \in Ids : Get1D(i) /\ CallOn(i)
    \/ \E i \in Ids : Get2D(i) /\ CallOn(i)
    \/ \E i \in Ids, n \in ArraySizes : Request2DArray(i, n) /\ CallOn(i)
    \/ \E i \in Ids, n \in ArraySizes : Get2DArray(i, n) /\ CallOn(i)
    \/ \E i \in Ids, n \in ArraySizes : Get2DArrays(i, n) /\ CallOn(i)
    \/ \E i \in Ids, n \in ArraySizes : Get2DArrayVec(i, n) /\ CallOn(i)
    \/ \E i \in Ids : StartNextSample(i) /\ CallOn(i)
    \/ \E i \in Ids, seed \in Seeds : Reseed(i, seed) /\ CallOn(i)
    \/ \E i \in Ids, seed \in Seeds : CloneWithSeed(i, seed) /\ CallOn(i)

SpecClone == Init /\ [][NextClone]_vars

(* --------------------------- the render loop --------------------------- *)
\* One 2D array of size n is requested, then per pixel: start_pixel, and
\* get_2d_array(n) followed by start_next_sample until that returns false.
\* After a pixel the caller goes on to the next or calls get_2d_array(n)
\* once more.  drv.got counts the pixel's non-empty results.
LoopRequest(n) ==
    /\ drv.phase = "idle"
    /\ Request2DArray(1, n)
    /\ drv' = [drv EXCEPT !.phase = "start", !.n = n]

LoopStartPixel(p) ==
    /\ drv.phase \in {"start", "after"}
    /\ StartPixel(1, p)
    /\ drv' = [drv EXCEPT !.phase = "get", !.got = 0]

LoopGet ==
    /\ drv.phase = "get"
    /\ Get2DArray(1, drv.n)
    /\ drv' = [drv EXCEPT !.phase = "next",
                          !.got = IF get_2d_array(Sampler(1), drv.n).out.kind = "some"
                                  THEN @ + 1 ELSE @]

LoopNext ==
    /\ drv.phase = "next"
    /\ StartNextSample(1)
    /\ drv' = [drv EXCEPT !.phase = IF start_next_sample(Sampler(1)).out.val
                                    THEN "get" ELSE "after"]

LoopProbe ==
    /\ drv.phase = "after"
    /\ Get2DArray(1, drv.n)
    /\ drv' = [drv EXCEPT !.phase = "done",
                          !.probe = get_2d_array(Sampler(1), drv.n).out.kind]

NextLoop ==
    \/ \E n \in ArraySizes : LoopRequest(n)
    \/ \E p \in Pixels : LoopStartPixel(p)
    \/ LoopGet
    \/ LoopNext
    \/ LoopProbe

SpecLoop == Init /\ [][NextLoop]_vars

(* ------------------------- two samplers, one seed ---------------------- *)
\* A second sampler is made beside the first, by new with the first one's
\* configuration or by clone_with_seed; each is called in any order
\* (MaxTwinWarm calls in all); both are then given one seed, by reseed or by
\* the clone_with_seed that made the second, and from there every call is made
\* on the first and then on the second (MaxTwinSteps calls on each).
\* drv.agree: the two agreed in every field but the rng when they were
\* seeded; drv.diff: their rngs differed then; drv.out: what the call on the
\* first returned; drv.same: every call so far returned the same on both.
SameSetup(a, b) ==
    /\ a.samples_per_pixel = b.samples_per_pixel
    /\ a.x_pixel_samples = b.x_pixel_samples
    /\ a.y_pixel_samples = b.y_pixel_samples
    /\ a.jitter_samples = b.jitter_samples
    /\ Len(a.samples_1d) = Len(b.samples_1d)
    /\ Len(a.samples_2d) = Len(b.samples_2d)
    /\ a.samples_1d_array_sizes = b.samples_1d_array_sizes
    /\ a.samples_2d_array_sizes = b.samples_2d_array_sizes

AgreeButRng(a, b) == [a EXCEPT !.rng = b.rng] = b

TwinNew ==
    /\ drv.phase = "idle"
    /\ Len(samplers) = 1
    /\ LET s == Sampler(1)
           v == new(s.x_pixel_samples, s.y_pixel_samples, s.jitter_samples,
                    Len(s.samples_1d))
       IN  /\ samplers' = Append(samplers, AddrsFrom(v, Len(heap)))
           /\ heap' = heap \o Buffers(v)
    /\ pc' = Append(pc, "ready")
    /\ hist' = Append(hist, NoHist)
    /\ UNCHANGED <<drv, light, lres>>

TwinWarm(i) ==
    /\ drv.phase = "idle"
    /\ drv.steps < MaxTwinWarm
    /\ drv' = [drv EXCEPT !.steps = @ + 1, !.actor = i]

TwinSeeded(phase, seed) ==
    drv' = [drv EXCEPT !.phase = phase, !.n = seed, !.steps = 0,
                       !.agree = AgreeButRng(Sampler(1), Sampler(2)),
                       !.diff = Sampler(1).rng # Sampler(2).rng]

TwinReseedFirst(seed) ==
    /\ drv.phase = "idle"
    /\ Len(samplers) = 2
    /\ pc[2] = "ready"
    /\ SameSetup(Sampler(1), Sampler(2))
    /\ Reseed(1, seed)
    /\ TwinSeeded("seeded", seed)

TwinReseedSecond ==
    /\ drv.phase = "seeded"
    /\ Reseed(2, drv.n)
    /\ drv' = [drv EXCEPT !.phase = "first"]

TwinClone(seed) ==
    /\ drv.phase = "idle"
    /\ Len(samplers) = 1
    /\ CloneWithSeed(1, seed)
    /\ drv' = [drv EXCEPT !.phase = "cloned", !.n = seed]

TwinReseedSource ==
    /\ drv.phase = "cloned"
    /\ Reseed(1, drv.n)
    /\ TwinSeeded("first", drv.n)

TwinFirst(out) ==
    /\ drv.phase = "first"
    /\ drv.steps < MaxTwinSteps
    /\ pc[2] = "ready"
    /\ drv' = [drv EXCEPT !.phase = "second", !.out = out, !.actor = 1]

TwinSecond(out) ==
    /\ drv.phase = "second"
    /\ out.op = drv.out.op
    /\ out.arg = drv.out.arg
    /\ drv' = [drv EXCEPT !.phase = "first", !.steps = @ + 1, !.actor = 2,
                          !.same = @ /\ (out = drv.out)]

NextTwin ==
    \/ TwinNew
    \/ \E seed \in Seeds : TwinClone(seed)
    \/ \E i \in Ids, p \in Pixels : StartPixel(i, p) /\ TwinWarm(i)
    \/ \E i \in Ids : Get1D(i) /\ TwinWarm(i)
    \/ \E i \in Ids : Get2D(i) /\ TwinWarm(i)
    \/ \E i \in Ids, n \in ArraySizes : Request2DArray(i, n) /\ TwinWarm(i)
    \/ \E i \in Ids, n \in ArraySizes : Get2DArray(i, n) /\ TwinWarm(i)
    \/ \E i \in Ids, n \in ArraySizes : Get2DArrays(i, n) /\ TwinWarm(i)
    \/ \E i \in Ids, n \in ArraySizes : Get2DArrayVec(i, n) /\ TwinWarm(i)
    \/ \E i \in Ids : StartNextSample(i) /\ TwinWarm(i)
    \/ \E i \in Ids, seed \in Seeds : Reseed(i, seed) /\ TwinWarm(i)
    \/ \E seed \in Seeds : TwinReseedFirst(seed)
    \/ TwinReseedSecond
    \/ TwinReseedSource
    \/ \E p \in Pixels :
          TwinFirst(start_pixel(Sampler(1), p).out) /\ StartPixel(1, p)
    \/ \E p \in Pixels :
          TwinSecond(start_pixel(Sampler(2), p).out) /\ StartPixel(2, p)
    \/ TwinFirst(get_1d(Sampler(1)).out) /\ Get1D(1)
    \/ TwinSecond(get_1d(Sampler(2)).out) /\ Get1D(2)
    \/ TwinFirst(get_2d(Sampler(1)).out) /\ Get2D(1)
    \/ TwinSecond(get_2d(Sampler(2)).out) /\ Get2D(2)
    \/ \E n \in ArraySizes :
          TwinFirst(get_2d_array(Sampler(1), n).out) /\ Get2DArray(1, n)
    \/ \E n \in ArraySizes :
          TwinSecond(get_2d_array(Sampler(2), n).out) /\ Get2DArray(2, n)
    \/ \E n \in ArraySizes :
          TwinFirst(get_2d_arrays(Sampler(1), n).out) /\ Get2DArrays(1, n)
    \/ \E n \in ArraySizes :
          TwinSecond(get_2d_arrays(Sampler(2), n).out) /\ Get2DArrays(2, n)
    \/ \E n \in ArraySizes :
          TwinFirst(get_2d_array_vec(Sampler(1), n).out) /\ Get2DArrayVec(1, n)
    \/ \E n \in ArraySizes :
          TwinSecond(get_2d_array_vec(Sampler(2), n).out) /\ Get2DArrayVec(2, n)
    \/ TwinFirst(start_next_sample(Sampler(1)).out) /\ StartNextSample(1)
    \/ TwinSecond(start_next_sample(Sampler(2)).out) /\ StartNextSample(2)

SpecTwin == Init /\ [][NextTwin]_vars

(* ---------------------------- the point light -------------------------- *)
\* A light is constructed, and an integrator calls it with any interaction,
\* ray and direction, taking what each call gave before it makes the next.
Coords == 0..MaxCoord
Points == {<<x, y, z>> : x \in Coords, y \in Coords, z \in Coords}
Intensities == {SpectrumNew(<<k, 1>>) : k \in 0..MaxIntensity}
                   \cup {<<<<1, 1>>, <<0, 1>>, <<1, 1>>>>}
Fog == [inside |-> Some("fog"), outside |-> None]
Vacuum == [inside |-> None, outside |-> None]
MediumInterfaces == {Vacuum, Fog}

\* Shading interactions: at any point; a bare one, one on a surface, and one
\* on a surface that bounds a medium.
Surfaces ==
    {[time |-> 0, p_error |-> Vector3fDefault, wo |-> Vector3fDefault,
      n |-> Normal3fDefault, medium_interface |-> None],
     [time |-> 1, p_error |-> <<1, 0, 0>>, wo |-> <<0, 0, 1>>,
      n |-> <<0, 1, 0>>, medium_interface |-> None],
     [time |-> 1, p_error |-> <<0, 1, 0>>, wo |-> <<1, 0, 0>>,
      n |-> <<0, 0, 1>>, medium_interface |-> Some(Fog)]}
Interactions ==
    {[p |-> q, time |-> f.time, p_error |-> f.p_error, wo |-> f.wo, n |-> f.n,
      medium_interface |-> f.medium_interface] : q \in Points, f \in Surfaces}
RandomPoints == {[x |-> <<a, RngModulus>>, y |-> <<b, RngModulus>>] :
                    a \in {0, RngModulus - 1}, b \in {0, RngModulus - 1}}
Rays == {[o |-> q, d |-> <<0, 0, 1>>, time |-> 0] : q \in Points}
Directions(l, iref) ==
    {sample_li(l, iref, Point2fDefault).wi, normalize(<<0, 0, 1>>),
     normalize(<<1, 1, 0>>)}

InitLight ==
    \E t \in Points, mi \in MediumInterfaces, i \in Intensities :
        /\ light = PointLight_new(t, mi, i)
        /\ lres = None
        /\ samplers = <<>>
        /\ heap = <<>>
        /\ pc = <<>>
        /\ hist = <<>>
        /\ drv = NoDrv

SampleLi(iref, u) ==
    /\ lres = None
    /\ lres' = sample_li(light, iref, u)
    /\ UNCHANGED <<light, samplers, heap, pc, hist, drv>>

Le(ray) ==
    /\ lres = None
    /\ lres' = le(light, ray)
    /\ UNCHANGED <<light, samplers, heap, pc, hist, drv>>

PdfLi(iref, wi) ==
    /\ lres = None
    /\ lres' = pdf_li(light, iref, wi)
    /\ UNCHANGED <<light, samplers, heap, pc, hist, drv>>

Shade ==
    /\ lres # None
    /\ lres' = None
    /\ UNCHANGED <<light, samplers, heap, pc, hist, drv>>

NextLight ==
    \/ Shade
    \/ \E iref \in Interactions, u \in RandomPoints : SampleLi(iref, u)
    \/ \E ray \in Rays : Le(ray)
    \/ \E iref \in Interactions : \E wi \in Directions(light, iref) :
          PdfLi(iref, wi)

SpecLight == InitLight /\ [][NextLight]_vars

(* ------------------------------ claims --------------------------------- *)
Ready(i) == pc[i] = "ready"
InSample(s) == s.current_pixel_sample_index < s.samples_per_pixel

\* C1: after start_pixel on a sampler with samples_per_pixel = N >= 1, the
\* k-th start_next_sample call since then returns true exactly when k < N:
\* true N-1 times, then false on the N-th call, whatever calls come between.
\* hist[i].nNext counts the start_next_sample calls made since start_pixel.
C1_NextSampleReturns ==
    \A i \in Ids :
        LET s == Sampler(i)
        IN  (Ready(i) /\ hist[i].started /\ s.samples_per_pixel >= 1) =>
                /\ start_next_sample(s).out.kind = "bool"
                /\ start_next_sample(s).out.val
                       = (hist[i].nNext + 1 < s.samples_per_pixel)

\* The N-th call since start_pixel has been made on a sampler with N = 2: the
\* sample index is N.
C1_Witness ==
    \E i \in Ids :
        /\ Ready(i) /\ hist[i].started
        /\ Sampler(i).samples_per_pixel = 2
        /\ hist[i].nNext = 2
        /\ Sampler(i).current_pixel_sample_index = 2

\* C2 (as claimed): in the render loop with one array of size n, a pixel
\* yields exactly samples_per_pixel non-empty results and the get_2d_array(n)
\* call after its last sample returns none.
C2_LoopEndsWithNone ==
    /\ drv.phase \in {"after", "done"} => drv.got = Sampler(1).samples_per_pixel
    /\ drv.phase = "done" => drv.probe = "none"

\* C2 (amended): in the render loop a pixel yields exactly samples_per_pixel
\* non-empty results, none of the loop's calls panics, and the
\* get_2d_array(n) call after the pixel's last sample panics: the sample
\* index is then samples_per_pixel.
C2_LoopEndsWithFault ==
    /\ drv.phase \in {"get", "next", "after"} => Ready(1)
    /\ drv.phase = "next" => drv.got = Sampler(1).current_pixel_sample_index + 1
    /\ drv.phase \in {"after", "done"} => drv.got = Sampler(1).samples_per_pixel
    /\ drv.phase = "done" =>
          /\ drv.probe = "fault"
          /\ Sampler(1).current_pixel_sample_index = Sampler(1).samples_per_pixel

\* The call after the last sample of a pixel with two samples has been made.
C2_Witness ==
    /\ drv.phase = "done"
    /\ drv.got = 2
    /\ Sampler(1).samples_per_pixel = 2

\* C3 (as claimed): with the sample index at or past samples_per_pixel, every
\* dispensing or array-access call panics; none returns a value, a none or an
\* empty result.
C3_PastEndAlwaysFaults ==
    \A i \in Ids :
        LET s == Sampler(i)
        IN  (Ready(i) /\ ~InSample(s)) =>
                /\ get_1d(s).out.kind = "fault"
                /\ get_2d(s).out.kind = "fault"
                /\ \A n \in ArraySizes :
                      /\ get_2d_array(s, n).out.kind = "fault"
                      /\ get_2d_arrays(s, n).out.kind = "fault"
                      /\ get_2d_array_vec(s, n).out.kind = "fault"

\* The size n is the one registered for the slot at cursor c of s.
Registered(s, c, n) ==
    c < Len(s.samples_2d_array_sizes) /\ s.samples_2d_array_sizes[c + 1] = n

\* C4 (as claimed): an array accessor called with a size that is not the one
\* registered for the slot it would consume, or with no array registered at
\* all, panics and leaves the 2D array cursor where it was.  get_2d_arrays
\* consumes the slots at the cursor and after it.
C4_MismatchFaults ==
    \A i \in Ids, n \in ArraySizes :
        LET s == Sampler(i)
            c == s.array_2d_offset
        IN  (Ready(i) /\ hist[i].started) =>
                /\ ~Registered(s, c, n) =>
                      /\ get_2d_array(s, n).out.kind = "fault"
                      /\ get_2d_array(s, n).s.array_2d_offset = c
                      /\ get_2d_array_vec(s, n).out.kind = "fault"
                      /\ get_2d_array_vec(s, n).s.array_2d_offset = c
                /\ (~Registered(s, c, n) \/ ~Registered(s, c + 1, n)) =>
                      /\ get_2d_arrays(s, n).out.kind = "fault"
                      /\ get_2d_arrays(s, n).s.array_2d_offset = c

\* C5 (as claimed): once start_pixel has been called on a sampler, a
\* request_2d_array call panics and leaves the registered sizes and the array
\* storage as they were.
C5_RequestAfterStartFaults ==
    \A i \in Ids, n \in ArraySizes :
        LET s == Sampler(i)
            r == request_2d_array(s, n)
        IN  (Ready(i) /\ hist[i].started) =>
                /\ r.out.kind = "fault"
                /\ r.s.samples_2d_array_sizes = s.samples_2d_array_sizes
                /\ r.s.sample_array_2d = s.sample_array_2d

\* C6 (as claimed): in a pixel sample with index k, the d-th get_1d call of
\* the sample returns entry k of table d and advances the 1D cursor while
\* d < number of tables; a later call returns one fresh draw and moves no
\* cursor.  get_1d never changes the 2D cursor, the array cursors or the
\* sample index.  hist[i].n1d counts the get_1d calls made in the sample.
C6_Get1DByCallCount ==
    \A i \in Ids :
        LET s == Sampler(i)
            d == hist[i].n1d
            k == s.current_pixel_sample_index
            r == get_1d(s)
        IN  (Ready(i) /\ hist[i].started /\ InSample(s)) =>
                /\ r.out.kind = "value"
                /\ IF d < Len(s.samples_1d)
                   THEN /\ r.out.val = s.samples_1d[d + 1][k + 1]
                        /\ r.s = [s EXCEPT !.current_1d_dimension = @ + 1]
                   ELSE /\ r.out.val = uniform_float(s.rng).val
                        /\ r.s = [s EXCEPT !.rng = uniform_float(s.rng).rng]

\* C7: get_2d with the 2D tables exhausted takes two consecutive draws, the
\* first for y and the second for x, and changes nothing but the rng; with a
\* table left it takes no draw, returns entry [2D cursor][sample index] and
\* advances only the 2D cursor.
C7_Get2D ==
    \A i \in Ids :
        LET s  == Sampler(i)
            r  == get_2d(s)
            d1 == uniform_float(s.rng)
            d2 == uniform_float(d1.rng)
        IN  (Ready(i) /\ InSample(s)) =>
                /\ r.out.kind = "value"
                /\ IF s.current_2d_dimension >= Len(s.samples_2d)
                   THEN /\ r.out.val.y = d1.val
                        /\ r.out.val.x = d2.val
                        /\ r.s = [s EXCEPT !.rng = d2.rng]
                   ELSE /\ r.out.val = s.samples_2d[s.current_2d_dimension + 1]
                                                   [s.current_pixel_sample_index + 1]
                        /\ r.s = [s EXCEPT !.current_2d_dimension = @ + 1]

\* A started sampler in a sample whose 2D tables a get_2d has used up: the
\* next get_2d draws from the rng.
C7_Witness ==
    \E i \in Ids :
        LET s == Sampler(i)
        IN  /\ Ready(i) /\ hist[i].started /\ InSample(s)
            /\ s.current_2d_dimension >= 1
            /\ s.current_2d_dimension >= Len(s.samples_2d)
            /\ s.jitter_samples

\* The positions (1-based) of sample k's n points in an array slot.
SamplePositions(k, n) == (k * n + 1)..((k + 1) * n)

\* C8: a successful get_2d_array(n) at sample index k with array cursor c
\* returns the n points at positions [k*n, (k+1)*n) of slot c, which lie
\* inside the slot's n * samples_per_pixel points, and advances the cursor to
\* c+1 and nothing else; the positions of different samples are disjoint.
C8_Get2DArraySlice ==
    \A i \in Ids, n \in ArraySizes :
        LET s == Sampler(i)
            c == s.array_2d_offset
            k == s.current_pixel_sample_index
            r == get_2d_array(s, n)
        IN  (Ready(i) /\ r.out.kind = "some") =>
                LET slot == s.sample_array_2d[c + 1]
                IN  /\ Len(slot) = n * s.samples_per_pixel
                    /\ SamplePositions(k, n) \subseteq DOMAIN slot
                    /\ Len(r.out.val) = n
                    /\ \A j \in 1..n : r.out.val[j] = slot[k * n + j]
                    /\ r.s = [s EXCEPT !.array_2d_offset = c + 1]
                    /\ \A k2 \in 0..(s.samples_per_pixel - 1) :
                          k2 # k => SamplePositions(k2, n)
                                       \cap SamplePositions(k, n) = {}

\* A call that succeeds on the second slot, in the second sample of a pixel
\* whose arrays start_pixel has filled.
C8_Witness ==
    \E i \in Ids, n \in ArraySizes :
        LET s == Sampler(i)
        IN  /\ Ready(i) /\ hist[i].started
            /\ get_2d_array(s, n).out.kind = "some"
            /\ s.array_2d_offset = 1
            /\ s.current_pixel_sample_index = 1
            /\ n = 2
            /\ s.sample_array_2d[2][3] # Point2fDefault

\* C9: get_2d_arrays(n) called at cursor c with slots c and c+1 both
\* registered with size n does what two consecutive get_2d_array(n) calls do:
\* in a sample it returns the sample's slice of slot c, then of slot c+1, and
\* leaves the cursor at c+2; past the last sample both panic at once.
C9_PairIsTwoSingles ==
    \A i \in Ids, n \in ArraySizes :
        LET s == Sampler(i)
            c == s.array_2d_offset
            k == s.current_pixel_sample_index
            r == get_2d_arrays(s, n)
            a == get_2d_array(s, n)
            b == get_2d_array(a.s, n)
        IN  (Ready(i) /\ Registered(s, c, n) /\ Registered(s, c + 1, n)) =>
                IF InSample(s)
                THEN /\ r.out.kind = "pair"
                     /\ a.out.kind = "some" /\ b.out.kind = "some"
                     /\ r.out.val = <<a.out.val, b.out.val>>
                     /\ \A j \in 1..n :
                           /\ r.out.val[1][j] = s.sample_array_2d[c + 1][k * n + j]
                           /\ r.out.val[2][j] = s.sample_array_2d[c + 2][k * n + j]
                     /\ r.s = b.s
                     /\ r.s.array_2d_offset = c + 2
                ELSE /\ r.out.kind = "fault" /\ a.out.kind = "fault"
                     /\ r.s = a.s

\* Two slots of one size, filled by start_pixel with different points, with
\* the cursor on the first of them in the second sample.
C9_Witness ==
    \E i \in Ids, n \in ArraySizes :
        LET s == Sampler(i)
        IN  /\ Ready(i) /\ hist[i].started /\ InSample(s)
            /\ s.array_2d_offset = 0
            /\ Registered(s, 0, n) /\ Registered(s, 1, n)
            /\ s.current_pixel_sample_index = 1
            /\ get_2d_arrays(s, n).out.kind = "pair"
            /\ get_2d_arrays(s, n).out.val[1] # get_2d_arrays(s, n).out.val[2]

\* The buffers a sampler's record owns.
Owned(r) == {r.samples_1d, r.samples_2d, r.samples_1d_array_sizes,
             r.samples_2d_array_sizes, r.sample_array_1d, r.sample_array_2d}

\* The lengths of a Vec of Vecs.
Shape(v) == [k \in DOMAIN v |-> Len(v[k])]

\* C10: a sampler made by clone_with_seed shares no buffer with any other
\* sampler; it starts with its source's samples_per_pixel, table shapes,
\* array sizes and array storage shapes, and the call leaves its source as it
\* was; and a call on one sampler leaves every field of every other sampler
\* unchanged, for the calls on the samplers interleaved in any order.
C10_CloneIndependent ==
    [][/\ \A i, j \in DOMAIN samplers' :
            i # j => Owned(samplers'[i]) \cap Owned(samplers'[j]) = {}
       /\ \A i \in DOMAIN samplers :
            i # drv'.actor =>
                DerefIn(heap', samplers'[i]) = DerefIn(heap, samplers[i])
       /\ Len(samplers') > Len(samplers) =>
            LET src == DerefIn(heap, samplers[drv'.actor])
                cln == DerefIn(heap', samplers'[Len(samplers')])
            IN  /\ DerefIn(heap', samplers'[drv'.actor]) = src
                /\ cln.samples_per_pixel = src.samples_per_pixel
                /\ Shape(cln.samples_1d) = Shape(src.samples_1d)
                /\ Shape(cln.samples_2d) = Shape(src.samples_2d)
                /\ cln.samples_1d_array_sizes = src.samples_1d_array_sizes
                /\ cln.samples_2d_array_sizes = src.samples_2d_array_sizes
                /\ Shape(cln.sample_array_1d) = Shape(src.sample_array_1d)
                /\ Shape(cln.sample_array_2d) = Shape(src.sample_array_2d)
      ]_vars

\* A clone whose tables and arrays a start_pixel on it has filled, beside a
\* source whose tables are still as cln.
C10_Witness ==
    /\ Len(samplers) = 2
    /\ drv.actor = 2
    /\ hist[2].started /\ ~hist[1].started
    /\ Len(Sampler(2).samples_1d) = 1
    /\ Len(Sampler(2).sample_array_2d) = 1
    /\ Sampler(2).samples_1d # Sampler(1).samples_1d
    /\ Sampler(2).sample_array_2d # Sampler(1).sample_array_2d

\* C11 (as claimed): two samplers with the same configuration and the same
\* registered arrays that are given the same seed, by reseed or by
\* clone_with_seed, and are then called alike return the same from every
\* call, whatever calls were made on them before.
C11_SameSeedSameValues ==
    drv.phase \in {"first", "second"} => drv.same

\* C11 (amended): reseed makes the rng a function of the seed alone, so two
\* samplers that agree in every field but the rng (tables, array storage,
\* cursors, sample index, pixel) when they are given the same seed, by reseed
\* or by clone_with_seed, are equal from then on while they are called alike,
\* and every call returns the same on both.
C11_TwinsAgree ==
    (drv.phase \in {"first", "second"} /\ drv.agree) =>
        /\ drv.same
        /\ drv.phase = "first" => (Sampler(1) = Sampler(2) /\ pc[1] = pc[2])

\* Two samplers whose rngs differed when they were seeded have each returned
\* a value drawn from the rng.
C11_Witness ==
    /\ drv.phase = "first"
    /\ drv.agree /\ drv.diff
    /\ drv.steps >= 1
    /\ drv.out.op = "get_1d" /\ drv.out.kind = "value"
    /\ Len(Sampler(1).samples_1d) = 0

\* Two rationals are the same number.
RatEq(a, b) == a[1] * b[2] = b[1] * a[2]

\* t holds each stratum centre (n + 1/2) / spp, n in 0..spp-1, exactly once.
HoldsCentresOnce(t, spp) ==
    /\ Len(t) = spp
    /\ \A n \in 0..(spp - 1) :
          Cardinality({j \in 1..spp : RatEq(t[j], <<2 * n + 1, 2 * spp>>)}) = 1

\* C12 (as claimed): with jitter disabled, after start_pixel every 1D table
\* holds each value (n + 1/2) / samples_per_pixel, n in 0..samples_per_pixel-1,
\* exactly once, and in the sample with index k the d-th get_1d call of the
\* sample returns entry k of table d, so that over the samples of the pixel
\* it returns each stratum centre exactly once.  hist[i].n1d counts the
\* get_1d calls made in the sample.
C12_StratumCentres ==
    \A i \in Ids :
        LET s == Sampler(i)
            d == hist[i].n1d
            k == s.current_pixel_sample_index
        IN  (Ready(i) /\ hist[i].started /\ ~s.jitter_samples) =>
                /\ \A e \in 1..Len(s.samples_1d) :
                      HoldsCentresOnce(s.samples_1d[e], s.samples_per_pixel)
                /\ (InSample(s) /\ d < Len(s.samples_1d)) =>
                      /\ get_1d(s).out.kind = "value"
                      /\ RatEq(get_1d(s).out.val, s.samples_1d[d + 1][k + 1])

\* C13: for a light with intensity I at P and an interaction at Q # P,
\* sample_li sets pdf to 1, returns I / |P - Q|^2 in every component, whatever
\* the random 2D value given, and sets wi to the vector P - Q over its length,
\* which has length 1.
C13_SampleLi ==
    (lres # None /\ lres.op = "sample_li" /\ lres.iref.p # light.p_light) =>
        LET P  == light.p_light
            Q  == lres.iref.p
            d2 == (P[1] - Q[1]) * (P[1] - Q[1]) + (P[2] - Q[2]) * (P[2] - Q[2])
                      + (P[3] - Q[3]) * (P[3] - Q[3])
        IN  /\ d2 > 0
            /\ lres.pdf = <<1, 1>>
            /\ \A c \in 1..3 : RatEq(lres.ret[c], <<light.i[c][1], light.i[c][2] * d2>>)
            /\ \A c \in 1..3 : lres.wi.v[c] = P[c] - Q[c]
            /\ lres.wi.len_sq = d2
            /\ lres.wi.v[1] * lres.wi.v[1] + lres.wi.v[2] * lres.wi.v[2]
                   + lres.wi.v[3] * lres.wi.v[3] = lres.wi.len_sq
            /\ \A u \in RandomPoints : sample_li(light, lres.iref, u) = lres

\* sample_li has been called for a light of a coloured intensity with a
\* shading point that differs from the light's in all three coordinates.
C13_Witness ==
    /\ lres # None /\ lres.op = "sample_li"
    /\ light.i = <<<<1, 1>>, <<0, 1>>, <<1, 1>>>>
    /\ \A c \in 1..3 : lres.iref.p[c] # light.p_light[c]

\* C14: pdf_li returns 0 for every interaction and every direction, the
\* direction sample_li returns for the interaction among them, and le returns
\* zero radiance for every ray.
C14_PdfLiAndLeZero ==
    /\ (lres # None /\ lres.op = "pdf_li") => lres.ret = <<0, 1>>
    /\ (lres # None /\ lres.op = "le") => lres.ret = <<<<0, 1>>, <<0, 1>>, <<0, 1>>>>
    /\ (light # None /\ lres = None) =>
          \A iref \in Interactions, u \in RandomPoints :
              pdf_li(light, iref, sample_li(light, iref, u).wi).ret = <<0, 1>>

\* pdf_li has been called with the direction that sample_li returns for the
\* interaction, towards a light of non-zero intensity away from it.
C14_Witness ==
    /\ lres # None /\ lres.op = "pdf_li"
    /\ lres.wi = sample_li(light, lres.iref, Point2fDefault).wi
    /\ lres.iref.p # light.p_light
    /\ light.i # SpectrumNew(FloatZero)

\* The dimension tables and the array storage of a sampler.
Stores(s) == <<s.samples_1d, s.samples_2d, s.sample_array_1d, s.sample_array_2d>>

\* C15: start_pixel(p) sets the current pixel to p, the sample index to 0 and
\* both array cursors to 0, and besides these changes only the tables, the
\* array storage and the rng; get_1d, get_2d, get_2d_array, get_2d_arrays,
\* get_2d_array_vec, start_next_sample and reseed leave every table and every
\* array slot as it was, whether they return or panic, and request_2d_array
\* adds an array slot and leaves the tables and the other slots as they were.
C15_OnlyStartPixelWrites ==
    \A i \in Ids :
        LET s == Sampler(i)
        IN  Ready(i) =>
                /\ \A p \in Pixels :
                      LET r == start_pixel(s, p).s
                      IN  /\ r.current_pixel = p
                          /\ r.current_pixel_sample_index = 0
                          /\ r.array_1d_offset = 0
                          /\ r.array_2d_offset = 0
                          /\ Shape(r.samples_1d) = Shape(s.samples_1d)
                          /\ Shape(r.samples_2d) = Shape(s.samples_2d)
                          /\ Shape(r.sample_array_2d) = Shape(s.sample_array_2d)
                          /\ [r EXCEPT !.current_pixel = s.current_pixel,
                                       !.current_pixel_sample_index =
                                           s.current_pixel_sample_index,
                                       !.array_1d_offset = s.array_1d_offset,
                                       !.array_2d_offset = s.array_2d_offset,
                                       !.samples_1d = s.samples_1d,
                                       !.samples_2d = s.samples_2d,
                                       !.sample_array_1d = s.sample_array_1d,
                                       !.sample_array_2d = s.sample_array_2d,
                                       !.rng = s.rng] = s
                /\ Stores(get_1d(s).s) = Stores(s)
                /\ Stores(get_2d(s).s) = Stores(s)
                /\ Stores(start_next_sample(s).s) = Stores(s)
                /\ \A n \in ArraySizes :
                      /\ Stores(get_2d_array(s, n).s) = Stores(s)
                      /\ Stores(get_2d_arrays(s, n).s) = Stores(s)
                      /\ Stores(get_2d_array_vec(s, n).s) = Stores(s)
                      /\ LET r == request_2d_array(s, n).s
                         IN  /\ r.samples_1d = s.samples_1d
                             /\ r.samples_2d = s.samples_2d
                             /\ r.sample_array_1d = s.sample_array_1d
                             /\ SubSeq(r.sample_array_2d, 1, Len(s.sample_array_2d))
                                    = s.sample_array_2d
                /\ \A seed \in Seeds : Stores(reseed(s, seed).s) = Stores(s)

\* A sampler in the second sample of a pixel, with a table and an array that
\* start_pixel has filled and would fill differently now, and with the array
\* cursor advanced.
C15_Witness ==
    \E i \in Ids :
        LET s == Sampler(i)
        IN  /\ Ready(i) /\ hist[i].started
            /\ s.current_pixel_sample_index = 1
            /\ s.array_2d_offset = 1
            /\ Len(s.samples_1d) = 1
            /\ \E p \in Pixels :
                  /\ start_pixel(s, p).s.samples_1d # s.samples_1d
                  /\ start_pixel(s, p).s.sample_array_2d # s.sample_array_2d

\* The dimension cursors and the array cursors of a sampler.
Cursors(s) == <<s.current_1d_dimension, s.current_2d_dimension,
                s.array_1d_offset, s.array_2d_offset>>

\* No cursor of r is below its value in s.
NoCursorBack(s, r) == \A c \in 1..4 : Cursors(r)[c] >= Cursors(s)[c]

\* C16 (as claimed): start_next_sample takes the four cursors to 0 and the
\* sample index one up, and it is the only operation in which a cursor goes
\* back: after any other call, start_pixel among them, no cursor is below its
\* value before the call.
C16_ResetOnlyOnAdvance ==
    \A i \in Ids :
        LET s == Sampler(i)
        IN  (Ready(i) /\ hist[i].started) =>
                /\ Cursors(start_next_sample(s).s) = <<0, 0, 0, 0>>
                /\ start_next_sample(s).s.current_pixel_sample_index
                       = s.current_pixel_sample_index + 1
                /\ \A p \in Pixels : NoCursorBack(s, start_pixel(s, p).s)
                /\ NoCursorBack(s, get_1d(s).s)
                /\ NoCursorBack(s, get_2d(s).s)
                /\ \A n \in ArraySizes :
                      /\ NoCursorBack(s, request_2d_array(s, n).s)
                      /\ NoCursorBack(s, get_2d_array(s, n).s)
                      /\ NoCursorBack(s, get_2d_arrays(s, n).s)
                      /\ NoCursorBack(s, get_2d_array_vec(s, n).s)
                /\ \A seed \in Seeds : NoCursorBack(s, reseed(s, seed).s)

\* C16 (amended): a cursor goes back to 0 only in a call that starts a pixel
\* sample: start_next_sample, which takes the four cursors to 0 and the sample
\* index one up, and start_pixel, which takes the two array cursors to 0 with
\* the sample index and no dimension cursor back.  After any other call,
\* returned or panicked, no cursor is below its value before the call.
C16_ResetOnlyOnSampleStart ==
    \A i \in Ids :
        LET s == Sampler(i)
        IN  Ready(i) =>
                /\ Cursors(start_next_sample(s).s) = <<0, 0, 0, 0>>
                /\ start_next_sample(s).s.current_pixel_sample_index
                       = s.current_pixel_sample_index + 1
                /\ \A p \in Pixels :
                      LET r == start_pixel(s, p).s
                      IN  /\ r.array_1d_offset = 0
                          /\ r.array_2d_offset = 0
                          /\ r.current_pixel_sample_index = 0
                          /\ r.current_1d_dimension >= s.current_1d_dimension
                          /\ r.current_2d_dimension >= s.current_2d_dimension
                /\ NoCursorBack(s, get_1d(s).s)
                /\ NoCursorBack(s, get_2d(s).s)
                /\ \A n \in ArraySizes :
                      /\ NoCursorBack(s, request_2d_array(s, n).s)
                      /\ NoCursorBack(s, get_2d_array(s, n).s)
                      /\ NoCursorBack(s, get_2d_arrays(s, n).s)
                      /\ NoCursorBack(s, get_2d_array_vec(s, n).s)
                /\ \A seed \in Seeds : NoCursorBack(s, reseed(s, seed).s)

\* A sampler in the middle of a sample, with both dimension cursors advanced
\* and the 2D array cursor advanced twice.
C16_Witness ==
    \E i \in Ids :
        LET s == Sampler(i)
        IN  /\ Ready(i) /\ hist[i].started /\ InSample(s)
            /\ s.current_1d_dimension = 1
            /\ s.current_2d_dimension = 1
            /\ s.array_2d_offset = 2

C18_VisibilityEndpoints ==
    (lres # None /\ lres.op = "sample_li") =>
        /\ lres.vis.p0 = lres.iref
        /\ lres.vis.p1 = [p |-> light.p_light, time |-> lres.iref.time,
                          p_error |-> <<0, 0, 0>>, wo |-> <<0, 0, 0>>,
                          n |-> <<0, 0, 0>>, medium_interface |-> None]

\* C19 (as claimed): after start_pixel(p), whatever calls came before it, both
\* dimension cursors are 0, and while the sampler has a table the first get_1d
\* and the first get_2d of the new pixel return entry 0 of table 0.
C19_StartPixelResetsDimensions ==
    \A i \in Ids, p \in Pixels :
        LET r == start_pixel(Sampler(i), p).s
        IN  Ready(i) =>
                /\ r.current_1d_dimension = 0
                /\ r.current_2d_dimension = 0
                /\ Len(r.samples_1d) > 0 =>
                      /\ get_1d(r).out.kind = "value"
                      /\ get_1d(r).out.val = r.samples_1d[1][1]
                /\ Len(r.samples_2d) > 0 =>
                      /\ get_2d(r).out.kind = "value"
                      /\ get_2d(r).out.val = r.samples_2d[1][1]

\* C20 (as claimed): in every state a get_2d_arrays(n) call that returns
\* either returns two slices and advances the 2D array cursor by 2, or returns
\* (none, none) and leaves the cursor where it was; with exactly one
\* registered slot left unconsumed it consumes none.
C20_PairAllOrNothing ==
    \A i \in Ids, n \in ArraySizes :
        LET s == Sampler(i)
            r == get_2d_arrays(s, n)
        IN  Ready(i) =>
                /\ r.out.kind = "pair" =>
                      r.s.array_2d_offset = s.array_2d_offset + 2
                /\ r.out.kind = "none" =>
                      r.s.array_2d_offset = s.array_2d_offset
                /\ s.array_2d_offset + 1 = Len(s.sample_array_2d) =>
                      r.s.array_2d_offset = s.array_2d_offset

=============================================================================
